---- MODULE Spec2Model ----
(***************************************************************************)
(* Model of the GC safepoint manager (package gc, type gcManager).         *)
(*                                                                         *)
(* The manager keeps three mutable fields (lastUpdatedTime,                *)
(* lastSucceededTime, lastSafePointTs) and exposes three methods:          *)
(* TryUpdateGCSafePoint, CheckStaleCheckpointTs and IgnoreFailedChangeFeed.*)
(* The struct has no lock, so TryUpdateGCSafePoint is modelled one shared  *)
(* memory access per step: the rate-limit read (line 80), the write of     *)
(* lastUpdatedTime together with the upstream request (lines 83-86), the   *)
(* response (lines 87-106) and the write of lastSucceededTime (line 107).  *)
(*                                                                         *)
(* Two clocks are modelled, each scaled on its own: the local wall clock   *)
(* `now` (time.Now) in ticks, and the PD clock / TSO physical time, which  *)
(* only IgnoreFailedChangeFeed reads.  Timestamps are unsigned integers of *)
(* TsBits bits (uint64 in the source), so checkpointTs - 1 wraps at 0.     *)
(***************************************************************************)
EXTENDS Integers, FiniteSets, Sequences, TLC

\* ---------------------------------------------------------------- bounds
\* width of a timestamp in bits (uint64 in the source, scaled down)
TsBits == 2
\* the local clock runs from 0 (construction) to MaxTime ticks
MaxTime == 4
\* the PD clock answers a time in 0..MaxPdTime
MaxPdTime == 4
\* number of goroutines sharing the manager in the concurrent specification
NumCallers == 2

\* ------------------------------------------------------ program constants
\* const gcTTL = 24 * time.Hour, in units of the PD clock
gcTTL == 2
\* var gcSafepointUpdateInterval = 1 * time.Minute, in ticks of the local clock
gcSafepointUpdateInterval == 2
\* time.Second, in ticks of the local clock
Second == 2
\* oracle.GetTimeFromTS shifts the logical bits away (18 in the library)
physicalShiftBits == 1
\* the largest time.Duration; Time.Sub saturates at +/- this value
maxDuration == 8

\* values serverConfig.GcTTL (seconds) may have
GcTTLs == {1, 2}

\* checkpoints the owner proposes to TryUpdateGCSafePoint
ProposedTs == {0, 1, 2}

\* the checkpoint proposed in the concurrent specification, where the race
\* is on the time stamps and not on the value proposed
ConcProposedTs == {2}

\* the errors SetServiceGCSafepoint returns: the service failed, or the
\* caller's context was cancelled while the request was in flight
PushErrors == {"fail", "cancel"}

TsMod == 2 ^ TsBits
Ts == 0 .. (TsMod - 1)
Callers == 1 .. NumCallers

\* the zero time.Time: further in the past than any Duration can express
ZeroTime == 0 - (2 * maxDuration)

VARIABLES
    now,                \* the wall clock read by time.Now()
    callers,            \* the goroutines that share the manager
    m_gcTTL,            \* gcManager.gcTTL (seconds)
    lastUpdatedTime,    \* gcManager.lastUpdatedTime
    lastSucceededTime,  \* gcManager.lastSucceededTime
    lastSafePointTs,    \* gcManager.lastSafePointTs
    pc,                 \* per caller: where it is inside TryUpdateGCSafePoint
    req,                \* per caller: the arguments of its call in progress
    ret,                \* what the step just taken returned to its caller, if anything
    nPush,              \* history: number of non-forced upstream pushes issued
    lastPushAt,         \* history: time of the latest upstream push (any kind)
    lastActual,         \* history: the safepoint SetServiceGCSafepoint last returned
    lastAttemptFailed,  \* history: the latest answered push failed and was swallowed
    lastAnswerLowered   \* history: the latest successful answer was below the cached safepoint

vars == <<now, callers, m_gcTTL, lastUpdatedTime, lastSucceededTime,
          lastSafePointTs, pc, req, ret, nPush, lastPushAt, lastActual,
          lastAttemptFailed, lastAnswerLowered>>

\* the history variables no step but the answer to a push touches
answers == <<lastActual, lastAttemptFailed, lastAnswerLowered>>

mgr == <<lastUpdatedTime, lastSucceededTime, lastSafePointTs>>

NoReq == [cp |-> 0, force |-> FALSE, at |-> 0]
NoRet == [op |-> "none", cp |-> 0, force |-> FALSE, at |-> 0, upstream |-> "none",
          pdOk |-> TRUE, pdTime |-> 0, res |-> "none"]

\* ------------------------------------------------------------ arithmetic
\* a - b on unsigned integers of TsBits bits
USub(a, b) == (a - b + TsMod) % TsMod

\* Time.Sub: the difference, saturated at the largest/smallest Duration
Sub(t, u) ==
    IF t - u > maxDuration THEN maxDuration
    ELSE IF t - u < 0 - maxDuration THEN 0 - maxDuration
    ELSE t - u

\* time.Since(t) == time.Now().Sub(t)
Since(t) == Sub(now, t)

\* oracle.GetTimeFromTS: the physical (wall clock) part of a timestamp
GetTimeFromTS(ts) == ts \div (2 ^ physicalShiftBits)

\* ------------------------------------------------ decisions of the code
\* bug variant: the force flag is not consulted
RateLimited_IgnoresForce(force) ==
    Since(lastUpdatedTime) < gcSafepointUpdateInterval

\* bug variant: after a failed attempt the window is twice as long
RateLimited_BackoffAfterFailure(force) ==
    /\ ~force
    /\ Since(lastUpdatedTime) <
          (IF lastUpdatedTime > lastSucceededTime
           THEN 2 * gcSafepointUpdateInterval ELSE gcSafepointUpdateInterval)

\* line 80: time.Since(m.lastUpdatedTime) < gcSafepointUpdateInterval && !forceUpdate
RateLimited(force) ==
    Since(lastUpdatedTime) < gcSafepointUpdateInterval /\ ~force

\* bug variant: the grace window never ends
GraceExceeded_Never ==
    FALSE

\* bug variant: the grace window is exceeded only strictly after its end
GraceExceeded_Strict ==
    Since(lastSucceededTime) > Second * m_gcTTL

\* line 91: time.Since(m.lastSucceededTime) >= time.Second*time.Duration(m.gcTTL)
GraceExceeded ==
    Since(lastSucceededTime) >= Second * m_gcTTL

\* lines 87-95: what TryUpdateGCSafePoint returns when the push returned an error
PushErrorResult ==
    IF GraceExceeded THEN "ErrUpdateServiceSafepointFailed" ELSE "nil"

\* bug variant: checkpointTs - 1 is computed on signed integers
CheckStaleResult_Signed(cp) ==
    IF cp - 1 < lastSafePointTs THEN "ErrSnapshotLostByGC" ELSE "nil"

\* bug variant: the checkpoint itself is compared, not checkpointTs - 1
CheckStaleResult_NoMinusOne(cp) ==
    IF cp < lastSafePointTs THEN "ErrSnapshotLostByGC" ELSE "nil"

\* lines 114-123: the error CheckStaleCheckpointTs returns
CheckStaleResult(cp) ==
    IF USub(cp, 1) < lastSafePointTs THEN "ErrSnapshotLostByGC" ELSE "nil"

\* bug variant: the configured m.gcTTL is used instead of the constant gcTTL
IgnoreResult_UsesTTL(cp, pdOk, pdTime) ==
    IF ~pdOk THEN FALSE
    ELSE Sub(pdTime, GetTimeFromTS(USub(cp, 1))) > Second * m_gcTTL

\* bug variant: a changefeed is ignored when the PD clock cannot be read
IgnoreResult_TrueOnError(cp, pdOk, pdTime) ==
    IF ~pdOk THEN TRUE
    ELSE Sub(pdTime, GetTimeFromTS(USub(cp, 1))) > gcTTL

\* lines 129-142: the boolean IgnoreFailedChangeFeed returns
IgnoreResult(cp, pdOk, pdTime) ==
    IF ~pdOk THEN FALSE
    ELSE Sub(pdTime, GetTimeFromTS(USub(cp, 1))) > gcTTL

\* the return of a TryUpdateGCSafePoint call entered at time `at`
TryRet(cp, force, at, upstream, res) ==
    [op |-> "TryUpdateGCSafePoint", cp |-> cp, force |-> force, at |-> at,
     upstream |-> upstream, pdOk |-> TRUE, pdTime |-> 0, res |-> res]

\* ------------------------------------------------------------------ Init
\* NewManager (lines 63-75): lastSucceededTime is time.Now(), the other two
\* fields keep their zero values.
InitManager ==
    /\ now = 0
    /\ m_gcTTL \in GcTTLs
    /\ lastUpdatedTime = ZeroTime
    /\ lastSucceededTime = now
    /\ lastSafePointTs = 0
    /\ pc = [p \in Callers |-> "idle"]
    /\ req = [p \in Callers |-> NoReq]
    /\ ret = NoRet
    /\ nPush = 0
    /\ lastPushAt = ZeroTime
    /\ lastActual = 0
    /\ lastAttemptFailed = FALSE
    /\ lastAnswerLowered = FALSE

\* one caller: the owner loop calling the manager sequentially
Init == InitManager /\ callers = {1}

\* several goroutines share the manager
InitConc == InitManager /\ callers = Callers /\ m_gcTTL = 1

\* --------------------------------------------------------------- actions
\* the wall clock advances
Tick ==
    /\ now < MaxTime
    /\ now' = now + 1
    /\ ret' = NoRet
    /\ UNCHANGED <<callers, m_gcTTL, mgr, pc, req, nPush, lastPushAt, answers>>

\* bug variant: a skipped call records itself as an attempt
TryUpdateGCSafePoint_StampsFirst(p, cp, force) ==
    /\ pc[p] = "idle"
    /\ lastUpdatedTime' = now
    /\ IF RateLimited(force)
       THEN /\ ret' = TryRet(cp, force, now, "skip", "nil")
            /\ UNCHANGED <<pc, req>>
       ELSE /\ pc' = [pc EXCEPT ![p] = "l83"]
            /\ req' = [req EXCEPT ![p] = [cp |-> cp, force |-> force, at |-> now]]
            /\ ret' = NoRet
    /\ UNCHANGED <<now, callers, m_gcTTL, lastSucceededTime, lastSafePointTs,
                   nPush, lastPushAt, answers>>

\* lines 77-82: entry of TryUpdateGCSafePoint and the rate-limit check
TryUpdateGCSafePoint(p, cp, force) ==
    /\ pc[p] = "idle"
    /\ IF RateLimited(force)
       THEN /\ ret' = TryRet(cp, force, now, "skip", "nil")
            /\ UNCHANGED <<pc, req>>
       ELSE /\ pc' = [pc EXCEPT ![p] = "l83"]
            /\ req' = [req EXCEPT ![p] = [cp |-> cp, force |-> force, at |-> now]]
            /\ ret' = NoRet
    /\ UNCHANGED <<now, callers, m_gcTTL, mgr, nPush, lastPushAt, answers>>

\* bug variant: the attempt is not recorded before the push
RecordAttemptAndPush_NoStamp(p) ==
    /\ pc[p] = "l83"
    /\ nPush' = IF req[p].force THEN nPush ELSE nPush + 1
    /\ lastPushAt' = now
    /\ pc' = [pc EXCEPT ![p] = "wait"]
    /\ ret' = NoRet
    /\ UNCHANGED <<now, callers, m_gcTTL, mgr, req, answers>>

\* lines 83-86: record the attempt and issue SetServiceGCSafepoint
RecordAttemptAndPush(p) ==
    /\ pc[p] = "l83"
    /\ lastUpdatedTime' = now
    /\ nPush' = IF req[p].force THEN nPush ELSE nPush + 1
    /\ lastPushAt' = now
    /\ pc' = [pc EXCEPT ![p] = "wait"]
    /\ ret' = NoRet
    /\ UNCHANGED <<now, callers, m_gcTTL, lastSucceededTime, lastSafePointTs, req,
                   answers>>

\* bug variant: lastSucceededTime is refreshed before the error is looked at
PushFailed_Refreshes(p, upstream) ==
    /\ pc[p] = "wait"
    /\ lastSucceededTime' = now
    /\ ret' = TryRet(req[p].cp, req[p].force, req[p].at, upstream, PushErrorResult)
    /\ pc' = [pc EXCEPT ![p] = "idle"]
    /\ req' = [req EXCEPT ![p] = NoReq]
    /\ lastAttemptFailed' = (PushErrorResult = "nil")
    /\ UNCHANGED <<now, callers, m_gcTTL, lastUpdatedTime, lastSafePointTs,
                   nPush, lastPushAt, lastActual, lastAnswerLowered>>

\* bug variant: a failed attempt is forgotten, so the next call may push at once
PushFailed_ClearsStamp(p, upstream) ==
    /\ pc[p] = "wait"
    /\ lastUpdatedTime' = ZeroTime
    /\ ret' = TryRet(req[p].cp, req[p].force, req[p].at, upstream, PushErrorResult)
    /\ pc' = [pc EXCEPT ![p] = "idle"]
    /\ req' = [req EXCEPT ![p] = NoReq]
    /\ lastAttemptFailed' = (PushErrorResult = "nil")
    /\ UNCHANGED <<now, callers, m_gcTTL, lastSucceededTime, lastSafePointTs,
                   nPush, lastPushAt, lastActual, lastAnswerLowered>>

\* bug variant: a failed push invalidates the cached safepoint
PushFailed_ResetsSafepoint(p, upstream) ==
    /\ pc[p] = "wait"
    /\ lastSafePointTs' = 0
    /\ ret' = TryRet(req[p].cp, req[p].force, req[p].at, upstream, PushErrorResult)
    /\ pc' = [pc EXCEPT ![p] = "idle"]
    /\ req' = [req EXCEPT ![p] = NoReq]
    /\ lastAttemptFailed' = (PushErrorResult = "nil")
    /\ UNCHANGED <<now, callers, m_gcTTL, lastUpdatedTime, lastSucceededTime,
                   nPush, lastPushAt, lastActual, lastAnswerLowered>>

\* lines 85-95: SetServiceGCSafepoint returns an error; upstream is "fail"
\* (the service failed) or "cancel" (the caller's context was cancelled)
PushFailed(p, upstream) ==
    /\ pc[p] = "wait"
    /\ ret' = TryRet(req[p].cp, req[p].force, req[p].at, upstream, PushErrorResult)
    /\ pc' = [pc EXCEPT ![p] = "idle"]
    /\ req' = [req EXCEPT ![p] = NoReq]
    /\ lastAttemptFailed' = (PushErrorResult = "nil")
    /\ UNCHANGED <<now, callers, m_gcTTL, mgr, nPush, lastPushAt, lastActual,
                   lastAnswerLowered>>

\* bug variant: the cached safepoint is never moved back
PushSucceeded_KeepsMax(p, actual) ==
    /\ pc[p] = "wait"
    /\ lastSafePointTs' = IF actual > lastSafePointTs THEN actual ELSE lastSafePointTs
    /\ pc' = [pc EXCEPT ![p] = "l107"]
    /\ ret' = NoRet
    /\ lastActual' = actual
    /\ lastAttemptFailed' = FALSE
    /\ lastAnswerLowered' = (actual < lastSafePointTs)
    /\ UNCHANGED <<now, callers, m_gcTTL, lastUpdatedTime, lastSucceededTime,
                   req, nPush, lastPushAt>>

\* lines 85-106: SetServiceGCSafepoint returns (actual, nil); actual is stored
PushSucceeded(p, actual) ==
    /\ pc[p] = "wait"
    /\ lastSafePointTs' = actual
    /\ pc' = [pc EXCEPT ![p] = "l107"]
    /\ ret' = NoRet
    /\ lastActual' = actual
    /\ lastAttemptFailed' = FALSE
    /\ lastAnswerLowered' = (actual < lastSafePointTs)
    /\ UNCHANGED <<now, callers, m_gcTTL, lastUpdatedTime, lastSucceededTime,
                   req, nPush, lastPushAt>>

\* bug variant: the requested checkpoint is cached on return, not the answer
RecordSuccess_StoresRequested(p) ==
    /\ pc[p] = "l107"
    /\ lastSafePointTs' = req[p].cp
    /\ lastSucceededTime' = now
    /\ ret' = TryRet(req[p].cp, req[p].force, req[p].at, "ok", "nil")
    /\ pc' = [pc EXCEPT ![p] = "idle"]
    /\ req' = [req EXCEPT ![p] = NoReq]
    /\ UNCHANGED <<now, callers, m_gcTTL, lastUpdatedTime, nPush, lastPushAt, answers>>

\* lines 107-108: refresh lastSucceededTime and return nil
RecordSuccess(p) ==
    /\ pc[p] = "l107"
    /\ lastSucceededTime' = now
    /\ ret' = TryRet(req[p].cp, req[p].force, req[p].at, "ok", "nil")
    /\ pc' = [pc EXCEPT ![p] = "idle"]
    /\ req' = [req EXCEPT ![p] = NoReq]
    /\ UNCHANGED <<now, callers, m_gcTTL, lastUpdatedTime, lastSafePointTs,
                   nPush, lastPushAt, answers>>

\* lines 111-124
CheckStaleCheckpointTs(p, cp) ==
    /\ pc[p] = "idle"
    /\ ret' = [op |-> "CheckStaleCheckpointTs", cp |-> cp, force |-> FALSE, at |-> now,
               upstream |-> "none", pdOk |-> TRUE, pdTime |-> 0,
               res |-> CheckStaleResult(cp)]
    /\ UNCHANGED <<now, callers, m_gcTTL, mgr, pc, req, nPush, lastPushAt, answers>>

\* lines 126-143; pdOk and pdTime are what m.pdClock.CurrentTime() answers
IgnoreFailedChangeFeed(p, cp, pdOk, pdTime) ==
    /\ pc[p] = "idle"
    /\ ret' = [op |-> "IgnoreFailedChangeFeed", cp |-> cp, force |-> FALSE, at |-> now,
               upstream |-> "none", pdOk |-> pdOk, pdTime |-> pdTime,
               res |-> IF IgnoreResult(cp, pdOk, pdTime) THEN "true" ELSE "false"]
    /\ UNCHANGED <<now, callers, m_gcTTL, mgr, pc, req, nPush, lastPushAt, answers>>

Next ==
    \/ Tick
    \/ \E p \in callers, cp \in ProposedTs, force \in BOOLEAN :
          TryUpdateGCSafePoint(p, cp, force)
    \/ \E p \in callers : RecordAttemptAndPush(p)
    \/ \E p \in callers, upstream \in PushErrors : PushFailed(p, upstream)
    \/ \E p \in callers, actual \in Ts : PushSucceeded(p, actual)
    \/ \E p \in callers : RecordSuccess(p)
    \/ \E p \in callers, cp \in Ts : CheckStaleCheckpointTs(p, cp)
    \/ \E p \in callers, cp \in Ts, pdTime \in 0 .. MaxPdTime :
          IgnoreFailedChangeFeed(p, cp, TRUE, pdTime)
    \/ \E p \in callers, cp \in Ts : IgnoreFailedChangeFeed(p, cp, FALSE, 0)

Spec == Init /\ [][Next]_vars

\* The goroutines race on the manager's fields only: IgnoreFailedChangeFeed
\* reads none of them, so the concurrent specification leaves it out.
NextConc ==
    \/ Tick
    \/ \E p \in callers, cp \in ConcProposedTs, force \in BOOLEAN :
          TryUpdateGCSafePoint(p, cp, force)
    \/ \E p \in callers : RecordAttemptAndPush(p)
    \/ \E p \in callers, upstream \in PushErrors : PushFailed(p, upstream)
    \/ \E p \in callers, actual \in Ts : PushSucceeded(p, actual)
    \/ \E p \in callers : RecordSuccess(p)
    \/ \E p \in callers, cp \in Ts : CheckStaleCheckpointTs(p, cp)

SpecConc == InitConc /\ [][NextConc]_vars

\* The service keeps its contract: the safepoint it answers never exceeds
\* the one requested (the failpoint of lines 96-98 is not active).
NextContract ==
    \/ Tick
    \/ \E p \in callers, cp \in ProposedTs, force \in BOOLEAN :
          TryUpdateGCSafePoint(p, cp, force)
    \/ \E p \in callers : RecordAttemptAndPush(p)
    \/ \E p \in callers, upstream \in PushErrors : PushFailed(p, upstream)
    \/ \E p \in callers, actual \in Ts :
          actual <= req[p].cp /\ PushSucceeded(p, actual)
    \/ \E p \in callers : RecordSuccess(p)
    \/ \E p \in callers, cp \in Ts : CheckStaleCheckpointTs(p, cp)
    \/ \E p \in callers, cp \in Ts, pdTime \in 0 .. MaxPdTime :
          IgnoreFailedChangeFeed(p, cp, TRUE, pdTime)
    \/ \E p \in callers, cp \in Ts : IgnoreFailedChangeFeed(p, cp, FALSE, 0)

SpecContract == Init /\ [][NextContract]_vars

\* The clock advances, the owner loop keeps calling TryUpdateGCSafePoint
\* without force, a call that has entered runs on, and the upstream request
\* returns.
Fairness ==
    /\ WF_vars(Tick)
    /\ WF_vars(\E p \in callers, cp \in ProposedTs : TryUpdateGCSafePoint(p, cp, FALSE))
    /\ WF_vars(\E p \in callers : RecordAttemptAndPush(p))
    /\ WF_vars(\E p \in callers, upstream \in PushErrors : PushFailed(p, upstream))
    /\ WF_vars(\E p \in callers : RecordSuccess(p))

\* The owner loop alone: the periodic safepoint update and the clock.  The
\* two queries write no field, so they are left out of the liveness check.
NextOwnerLoop ==
    \/ Tick
    \/ \E p \in callers, cp \in ProposedTs, force \in BOOLEAN :
          TryUpdateGCSafePoint(p, cp, force)
    \/ \E p \in callers : RecordAttemptAndPush(p)
    \/ \E p \in callers, upstream \in PushErrors : PushFailed(p, upstream)
    \/ \E p \in callers, actual \in Ts : PushSucceeded(p, actual)
    \/ \E p \in callers : RecordSuccess(p)

SpecFair == Init /\ [][NextOwnerLoop]_vars /\ Fairness

\* ---------------------------------------------------------------- claims
Fatal == "ErrUpdateServiceSafepointFailed"
TryReturned == ret.op = "TryUpdateGCSafePoint"
\* the end of the grace window that started at the last success
GraceEnd == lastSucceededTime + Second * m_gcTTL
\* checkpointTs - 1 as the unsigned subtraction computes it
UpperBound(cp) == IF cp = 0 THEN TsMod - 1 ELSE cp - 1
\* the smallest k with k * d >= n
CeilDiv(n, d) == (n + d - 1) \div d

\* C1: with one caller at a time, a non-forced call passes the rate-limit
\* check only when no push was issued less than gcSafepointUpdateInterval
\* before, and a non-forced push is issued at least gcSafepointUpdateInterval
\* after the push before it; so of two non-forced calls less than an interval
\* apart the second is skipped when the first pushed.
C1_NonForcedPushesSpaced ==
    [][\A p \in Callers :
         /\ (pc[p] = "idle" /\ pc'[p] = "l83" /\ ~req'[p].force)
               => (lastPushAt = ZeroTime
                   \/ now - lastPushAt >= gcSafepointUpdateInterval)
         /\ (pc[p] = "l83" /\ pc'[p] = "wait" /\ ~req[p].force)
               => (lastPushAt = ZeroTime
                   \/ now' - lastPushAt >= gcSafepointUpdateInterval)]_vars

\* a non-forced call made less than an interval after the one non-forced
\* push so far has just been skipped
C1_Witness ==
    /\ TryReturned /\ ~ret.force /\ ret.upstream = "skip"
    /\ nPush = 1
    /\ now > lastPushAt
    /\ now - lastPushAt < gcSafepointUpdateInterval

\* C2: the number of non-forced upstream pushes issued in the first `now`
\* ticks never exceeds ceil(now / gcSafepointUpdateInterval) + 1.
C2_PushCountBounded ==
    nPush <= CeilDiv(now, gcSafepointUpdateInterval) + 1

\* C3 as claimed: with T0 = lastSucceededTime, a call that did not succeed
\* upstream returns nil when made before T0 + ttl and the fatal error when
\* made at or after it.
C3_AsClaimed ==
    (TryReturned /\ ret.upstream # "ok")
        => IF ret.at < GraceEnd THEN ret.res = "nil" ELSE ret.res = Fatal

\* C3 as amended: a call whose push was attempted and failed returns nil when
\* the failure is handled before T0 + ttl and the fatal error when it is
\* handled at or after it; a rate-limited call returns nil at any time.
C3_GraceWindow ==
    TryReturned =>
        /\ ret.upstream \in PushErrors
              => IF now < GraceEnd THEN ret.res = "nil" ELSE ret.res = Fatal
        /\ ret.upstream = "skip" => ret.res = "nil"

\* a failed push handled exactly at T0 + ttl returned the fatal error
C3_Witness ==
    /\ TryReturned /\ ret.upstream = "fail" /\ ret.res = Fatal
    /\ now = GraceEnd

\* C4: CheckStaleCheckpointTs(cp) returns ErrSnapshotLostByGC if and only if
\* cp - 1 (unsigned) is below lastSafePointTs, and nil otherwise.
C4_CheckStaleIff ==
    ret.op = "CheckStaleCheckpointTs" =>
        /\ ret.res \in {"ErrSnapshotLostByGC", "nil"}
        /\ ret.res = "ErrSnapshotLostByGC" <=> UpperBound(ret.cp) < lastSafePointTs

\* a checkpoint equal to a non-zero safepoint was rejected
C4_Witness ==
    /\ ret.op = "CheckStaleCheckpointTs"
    /\ lastSafePointTs > 0
    /\ ret.cp = lastSafePointTs
    /\ ret.res = "ErrSnapshotLostByGC"

\* C5: once a safepoint is known, a checkpoint CheckStaleCheckpointTs accepts
\* lies above it.
C5_AcceptedAboveSafepoint ==
    (ret.op = "CheckStaleCheckpointTs" /\ ret.res = "nil" /\ lastSafePointTs > 0)
        => ret.cp > lastSafePointTs

\* C6: a call with forceUpdate = true never returns without having pushed.
C6_ForcedAlwaysPushes ==
    (TryReturned /\ ret.force) => ret.upstream \in PushErrors \cup {"ok"}

\* a forced call pushed although a non-forced push had been issued less than
\* an interval before
C6_Witness ==
    /\ TryReturned /\ ret.force /\ ret.upstream = "ok"
    /\ nPush = 1
    /\ now < gcSafepointUpdateInterval

\* C7: no step of a call that ends cancelled (its entry, its push, the return
\* of the cancelled push) changes lastSucceededTime or lastSafePointTs.
C7_CancelKeepsSuccessState ==
    [][(\/ \E p \in Callers : pc[p] = "idle" /\ pc'[p] = "l83"
        \/ \E p \in Callers : pc[p] = "l83" /\ pc'[p] = "wait"
        \/ (TryReturned /\ ret.upstream = "cancel")')
          => UNCHANGED <<lastSucceededTime, lastSafePointTs>>]_vars

\* a cancelled push returned on a manager that had recorded a success
C7_Witness ==
    /\ TryReturned /\ ret.upstream = "cancel"
    /\ lastSafePointTs > 0
    /\ lastSucceededTime > 0
    /\ now > lastSucceededTime

\* C8: a call whose push was cancelled returns neither nil nor the fatal
\* ErrUpdateServiceSafepointFailed.
C8_CancelReturnsOwnError ==
    (TryReturned /\ ret.upstream = "cancel") => ret.res \notin {"nil", Fatal}

\* C9: when the PD clock answers pdTime, IgnoreFailedChangeFeed(cp) is true
\* if and only if pdTime minus the physical time of cp - 1 exceeds gcTTL.
C9_IgnoreIffOlderThanRetention ==
    (ret.op = "IgnoreFailedChangeFeed" /\ ret.pdOk) =>
        (ret.res = "true"
            <=> ret.pdTime - (UpperBound(ret.cp) \div (2 ^ physicalShiftBits)) > gcTTL)

\* a checkpoint one unit older than the retention window was ignored on a
\* manager whose configured TTL is not that window
C9_Witness ==
    /\ ret.op = "IgnoreFailedChangeFeed" /\ ret.pdOk /\ ret.res = "true"
    /\ Second * m_gcTTL # gcTTL
    /\ ret.cp > 0
    /\ ret.pdTime - ((ret.cp - 1) \div (2 ^ physicalShiftBits)) = gcTTL + 1

\* C10: when the PD clock cannot be read IgnoreFailedChangeFeed returns
\* false and the step changes nothing else.
C10_OracleFailureIsFalse ==
    [][(ret.op = "IgnoreFailedChangeFeed" /\ ~ret.pdOk)'
          => /\ ret'.res = "false"
             /\ UNCHANGED <<now, callers, m_gcTTL, mgr, pc, req, nPush, lastPushAt, answers>>]_vars

\* the oldest checkpoint there is was not ignored because the clock failed
C10_Witness ==
    /\ ret.op = "IgnoreFailedChangeFeed" /\ ~ret.pdOk /\ ret.res = "false"
    /\ ret.cp = 1

\* C11: when the answer to a forced call is the checkpoint it requested,
\* lastSafePointTs is that checkpoint when the call returns.
C11_ForcedStoresRequested ==
    (TryReturned /\ ret.force /\ ret.upstream = "ok" /\ lastActual = ret.cp)
        => lastSafePointTs = ret.cp

\* a forced call made inside the window of a non-forced push returned with
\* its checkpoint cached
C11_Witness ==
    /\ TryReturned /\ ret.force /\ ret.upstream = "ok"
    /\ ret.cp = 1 /\ lastActual = 1 /\ lastSafePointTs = 1
    /\ nPush = 1
    /\ now < gcSafepointUpdateInterval

\* C12 as claimed: a push that fails inside the grace window returns nil,
\* and no call that follows a swallowed failure is skipped.
C12_AsClaimed ==
    /\ (TryReturned /\ ret.upstream \in PushErrors /\ now < GraceEnd)
          => ret.res = "nil"
    /\ (TryReturned /\ lastAttemptFailed) => ret.upstream # "skip"

\* C12 as amended: a push that fails inside the grace window returns nil;
\* the call that follows it pushes again when it is forced or made at least
\* gcSafepointUpdateInterval after the failed attempt, and is skipped only
\* when it is not forced and made less than that after it.
C12_RetriedWhenNotRateLimited ==
    [][/\ (TryReturned /\ ret.upstream \in PushErrors /\ now < GraceEnd)'
             => (ret'.res = "nil" /\ lastAttemptFailed')
       /\ (lastAttemptFailed /\ (TryReturned /\ ret.upstream = "skip")')
             => (~ret'.force /\ now - lastPushAt < gcSafepointUpdateInterval)
       /\ \A p \in Callers :
            (lastAttemptFailed /\ pc[p] = "idle" /\ pc'[p] = "l83")
              => (req'[p].force \/ now - lastPushAt >= gcSafepointUpdateInterval)]_vars

\* after a swallowed failure a non-forced call has pushed again
C12_Witness ==
    /\ lastAttemptFailed
    /\ \E p \in callers : pc[p] = "wait" /\ ~req[p].force
    /\ lastPushAt = now
    /\ nPush >= 2

\* C13: lastSafePointTs changes only in the step that receives a successful
\* answer, and then to the safepoint of that answer; a skipped, failed or
\* cancelled call and the two queries leave it unchanged.
C13_SafepointOnlyFromAnswer ==
    [][/\ lastSafePointTs' # lastSafePointTs
             => (/\ \E p \in Callers : pc[p] = "wait" /\ pc'[p] = "l107"
                 /\ lastSafePointTs' = lastActual')
       /\ ((TryReturned /\ ret.upstream \in PushErrors \cup {"skip"})'
           \/ ret'.op \in {"CheckStaleCheckpointTs", "IgnoreFailedChangeFeed"})
             => lastSafePointTs' = lastSafePointTs]_vars

\* a successful answer has just replaced a cached safepoint by a lower one
C13_Witness ==
    /\ \E p \in callers : pc[p] = "l107"
    /\ lastSafePointTs = lastActual
    /\ lastSafePointTs = 1
    /\ nPush >= 2

\* C14: when a successful answer exceeds the proposed checkpoint, the call
\* returns nil with that answer cached and lastSucceededTime refreshed, and
\* CheckStaleCheckpointTs then rejects the checkpoint that was proposed.
C14_LargerAnswerRejectsProposal ==
    (TryReturned /\ ret.upstream = "ok" /\ lastActual > ret.cp)
        => /\ ret.res = "nil"
           /\ lastSafePointTs = lastActual
           /\ lastSucceededTime = now
           /\ CheckStaleResult(ret.cp) = "ErrSnapshotLostByGC"

\* C15: a rate-limited call (not forced, less than gcSafepointUpdateInterval
\* after lastUpdatedTime) returns nil in one step that issues no push and
\* leaves lastUpdatedTime, lastSucceededTime and lastSafePointTs as they were.
C15_SkipChangesNothing ==
    [][(TryReturned /\ ret.upstream = "skip")'
          => /\ ret'.res = "nil"
             /\ ~ret'.force
             /\ now - lastUpdatedTime < gcSafepointUpdateInterval
             /\ UNCHANGED <<now, callers, m_gcTTL, mgr, pc, req, nPush, lastPushAt,
                            answers>>]_vars

\* a call was skipped one tick after a successful push, the stamp of that
\* push still in place
C15_Witness ==
    /\ TryReturned /\ ret.upstream = "skip" /\ ret.res = "nil"
    /\ lastUpdatedTime = lastPushAt
    /\ lastSucceededTime = lastPushAt
    /\ now = lastUpdatedTime + 1
    /\ lastSafePointTs = 2

\* C16: the step that issues the push sets lastUpdatedTime to the current
\* time and nothing else of the manager; the return of a failed push changes
\* no field; and the non-forced call that enters after a failed attempt does
\* so at least gcSafepointUpdateInterval after it.
C16_AttemptStampedBeforePush ==
    [][/\ \A p \in Callers :
            (pc[p] = "l83" /\ pc'[p] = "wait")
               => /\ lastUpdatedTime' = now
                  /\ UNCHANGED <<lastSucceededTime, lastSafePointTs>>
       /\ (TryReturned /\ ret.upstream \in PushErrors)'
             => (UNCHANGED mgr /\ lastUpdatedTime = lastPushAt)
       /\ \A p \in Callers :
            ((TryReturned /\ ret.upstream \in PushErrors)
                /\ pc[p] = "idle" /\ pc'[p] = "l83" /\ ~req'[p].force)
               => now - lastUpdatedTime >= gcSafepointUpdateInterval]_vars

\* a non-forced call was skipped one tick after an attempt that failed
C16_Witness ==
    /\ TryReturned /\ ret.upstream = "skip" /\ ~ret.force
    /\ lastAttemptFailed
    /\ lastUpdatedTime = lastPushAt
    /\ now = lastUpdatedTime + 1
    /\ lastSucceededTime < lastUpdatedTime

\* C17 as claimed: while every answer is at most the checkpoint requested,
\* lastSafePointTs never decreases.
C17_AsClaimed ==
    [][lastSafePointTs' >= lastSafePointTs]_vars

\* C17 as amended: while every answer is at most the checkpoint requested,
\* lastSafePointTs decreases only in the step that receives a successful
\* answer below the cached value, and every other step leaves it unchanged;
\* so it is monotonic exactly as long as the answers are.
C17_MonotonicWhileAnswersAre ==
    [][/\ lastSafePointTs' < lastSafePointTs
             => /\ \E p \in Callers :
                      /\ pc[p] = "wait" /\ pc'[p] = "l107"
                      /\ lastSafePointTs' <= req[p].cp
                /\ lastAnswerLowered'
                /\ lastSafePointTs' = lastActual'
       /\ (\A p \in Callers : ~(pc[p] = "wait" /\ pc'[p] = "l107"))
             => lastSafePointTs' = lastSafePointTs
       /\ ((\E p \in Callers : pc[p] = "wait" /\ pc'[p] = "l107")
              /\ ~lastAnswerLowered')
             => lastSafePointTs' >= lastSafePointTs]_vars

\* within the contract, the answer to a lower proposal has lowered the
\* cached safepoint
C17_Witness ==
    /\ lastAnswerLowered
    /\ \E p \in callers :
          pc[p] = "l107" /\ req[p].cp = 1 /\ lastSafePointTs <= req[p].cp
    /\ lastSucceededTime > 0

\* C18: no caller gets an answer from the manager while another goroutine is
\* between the write of lastSafePointTs (line 106) and the write of
\* lastSucceededTime (line 107), the new safepoint stored and the time of
\* the success still the old one.
C18_NoHalfUpdateObserved ==
    (\E p \in callers : pc[p] = "l107" /\ lastSucceededTime < now)
        => /\ ret.op # "CheckStaleCheckpointTs"
           /\ ~(TryReturned /\ ret.upstream \in PushErrors)

\* C19: a call returns an error only when its push was attempted, failed and
\* the failure came at or after the end of the grace window; and if from some
\* point on no push succeeds and the grace window ends early enough for the
\* modelled clock to reach a call that is not rate limited after it, a call
\* eventually returns the fatal error.
C19_PersistentFailureIsFatal ==
    /\ []((TryReturned /\ ret.res # "nil")
            => (ret.upstream \in PushErrors /\ ret.res = Fatal /\ now >= GraceEnd))
    /\ (/\ <>[][\A p \in Callers : ~(pc[p] = "wait" /\ pc'[p] = "l107")]_vars
        /\ <>[](GraceEnd + gcSafepointUpdateInterval <= MaxTime + 1))
          => <>(TryReturned /\ ret.res = Fatal)

\* the fatal error was returned to a non-forced call after an earlier failure
\* had been swallowed
C19_Witness ==
    /\ TryReturned /\ ret.res = Fatal /\ ~ret.force /\ ret.upstream = "fail"
    /\ nPush >= 2
    /\ lastSucceededTime = 0

\* C20: CheckStaleCheckpointTs and IgnoreFailedChangeFeed change no field of
\* the manager and issue no push, whatever they return; and while
\* lastSafePointTs is 0 CheckStaleCheckpointTs returns nil for every checkpoint.
C20_QueriesArePure ==
    [][ret'.op \in {"CheckStaleCheckpointTs", "IgnoreFailedChangeFeed"}
          => /\ UNCHANGED <<now, callers, m_gcTTL, mgr, pc, req, nPush, lastPushAt,
                            answers>>
             /\ (ret'.op = "CheckStaleCheckpointTs" /\ lastSafePointTs = 0)
                   => ret'.res = "nil"]_vars

\* checkpoint 0 was accepted by a manager that has never pushed
C20_Witness ==
    /\ ret.op = "CheckStaleCheckpointTs" /\ ret.cp = 0 /\ ret.res = "nil"
    /\ lastSafePointTs = 0
    /\ lastUpdatedTime = ZeroTime
    /\ lastPushAt = ZeroTime

====
